---- MODULE Spec2Model ----
(***************************************************************************)
(* The read-evaluate loop of prompt.c: a line of prefix arithmetic is      *)
(* parsed by the grammar of main() into an mpc syntax tree, eval() walks   *)
(* the tree and folds the operands with eval_op(), and main() prints the   *)
(* lval and deletes the tree.                                              *)
(*                                                                         *)
(* A line, a node's contents and the printed numerals are sequences of     *)
(* one-character strings.  A tag such as "expr|number|regex" is the        *)
(* sequence of its parts, <<"expr", "number", "regex">>.  C child index k  *)
(* is element k + 1 of a node's children.                                  *)
(***************************************************************************)
EXTENDS Integers, Sequences, FiniteSets, TLC

\* Width in bits of the C type long that lval.num has.
LongBits == 4

\* Largest number of expr nodes (numerals and parenthesised forms) in a
\* generated line.
MaxNodes == 3

LONG_MAX == 2 ^ (LongBits - 1) - 1

LONG_MIN == -(2 ^ (LongBits - 1))

LongRange == LONG_MIN .. LONG_MAX

InRange(n) == LONG_MIN <= n /\ n <= LONG_MAX

LVAL_NUM == 0

LVAL_ERR == 1

LERR_DIV_ZERO == 0

LERR_BAD_OP == 1

LERR_BAD_NUM == 2

ERANGE == 34

\* lval_num sets type and num and leaves err unassigned.
lval_num(x) == [type |-> LVAL_NUM, num |-> x]

\* lval_err sets type and err and leaves num unassigned.
lval_err(x) == [type |-> LVAL_ERR, err |-> x]

\* What a read of v.num can give: the assigned value, or any long when the
\* field was never assigned.
NumOf(v) == IF "num" \in DOMAIN v THEN {v.num} ELSE LongRange

-----------------------------------------------------------------------------
(* Characters and decimal text *)

Digits == <<"0", "1", "2", "3", "4", "5", "6", "7", "8", "9">>

IsDigit(c) == \E k \in 1..10 : Digits[k] = c

DigitVal(c) == (CHOOSE k \in 1..10 : Digits[k] = c) - 1

IsSpace(c) == c = " "

RECURSIVE DecimalNat(_)
DecimalNat(n) ==
    IF n < 10 THEN <<Digits[n + 1]>>
    ELSE DecimalNat(n \div 10) \o <<Digits[(n % 10) + 1]>>

\* printf("%li"): the decimal text of a long.
Decimal(n) == IF n < 0 THEN <<"-">> \o DecimalNat(-n) ELSE DecimalNat(n)

\* strtol(s, NULL, 10) on text matching -?[0-9]+: the digits are accumulated
\* left to right; once the magnitude passes the limit of its sign the result
\* is clamped to LONG_MAX or LONG_MIN and errno is set to ERANGE.  A
\* conversion in range leaves errno alone.
RECURSIVE strtolAcc(_, _, _, _)
strtolAcc(s, k, acc, limit) ==
    IF k > Len(s) THEN acc
    ELSE IF ~IsDigit(s[k]) THEN acc
    ELSE LET nxt == acc * 10 + DigitVal(s[k])
         IN  strtolAcc(s, k + 1, IF nxt > limit THEN limit + 1 ELSE nxt, limit)

\* strtol without the sign: the conversion stops at the '-'.
strtolUnsigned(s, err) ==
    LET mag == strtolAcc(s, 1, 0, LONG_MAX)
    IN  IF mag > LONG_MAX THEN [val |-> LONG_MAX, errno |-> ERANGE]
        ELSE [val |-> mag, errno |-> err]

strtol(s, err) ==
    LET neg   == Len(s) > 0 /\ s[1] = "-"
        limit == IF neg THEN -LONG_MIN ELSE LONG_MAX
        mag   == strtolAcc(s, IF neg THEN 2 ELSE 1, 0, limit)
    IN  IF mag > limit
        THEN [val |-> IF neg THEN LONG_MIN ELSE LONG_MAX, errno |-> ERANGE]
        ELSE [val |-> IF neg THEN -mag ELSE mag, errno |-> err]

-----------------------------------------------------------------------------
(* The grammar of main() and the tree mpc builds for it *)

Leaf(tag, contents) == [tag |-> tag, contents |-> contents, children |-> <<>>]

Branch(tag, children) == [tag |-> tag, contents |-> <<>>, children |-> children]

Fail == [ok |-> FALSE]

Ok(node, pos) == [ok |-> TRUE, node |-> node, pos |-> pos]

\* MPCA_LANG_DEFAULT: every literal and regex of the grammar also consumes
\* the white space that follows it.
RECURSIVE SkipWs(_, _)
SkipWs(s, p) == IF p <= Len(s) /\ IsSpace(s[p]) THEN SkipWs(s, p + 1) ELSE p

\* A character literal 'c' of the grammar.
ParseChar(s, p, c) ==
    IF p <= Len(s) /\ s[p] = c
    THEN Ok(Leaf(<<"char">>, <<c>>), SkipWs(s, p + 1))
    ELSE Fail

RECURSIVE DigitsEnd(_, _)
DigitsEnd(s, p) == IF p <= Len(s) /\ IsDigit(s[p]) THEN DigitsEnd(s, p + 1) ELSE p

\* number : /-?[0-9]+/
ParseNumber(s, p) ==
    LET d == IF p <= Len(s) /\ s[p] = "-" THEN p + 1 ELSE p
        e == DigitsEnd(s, d)
    IN  IF e > d
        THEN Ok(Leaf(<<"number", "regex">>, SubSeq(s, p, e - 1)), SkipWs(s, e))
        ELSE Fail

\* operator : '+' | '-' | '*' | '/'
ParseOperator(s, p) ==
    LET alts == <<ParseChar(s, p, "+"), ParseChar(s, p, "-"),
                  ParseChar(s, p, "*"), ParseChar(s, p, "/")>>
        hits == {k \in 1..4 : alts[k].ok}
    IN  IF hits = {} THEN Fail
        ELSE LET r == alts[CHOOSE k \in hits : \A j \in hits : k <= j]
             IN  Ok([r.node EXCEPT !.tag = <<"operator">> \o @], r.pos)

RECURSIVE ParseExpr(_, _)
RECURSIVE ParseExprs(_, _, _)

\* <expr>+ : as many expr as match; acc holds the nodes matched so far.
ParseExprs(s, p, acc) ==
    LET r == ParseExpr(s, p)
    IN  IF r.ok THEN ParseExprs(s, r.pos, Append(acc, r.node))
        ELSE [nodes |-> acc, pos |-> p]

\* expr : <number> | '(' <operator> <expr>+ ')'
ParseExpr(s, p) ==
    LET n == ParseNumber(s, p)
    IN  IF n.ok THEN Ok([n.node EXCEPT !.tag = <<"expr">> \o @], n.pos)
        ELSE
        LET lp == ParseChar(s, p, "(")
        IN  IF ~lp.ok THEN Fail ELSE
        LET op == ParseOperator(s, lp.pos)
        IN  IF ~op.ok THEN Fail ELSE
        LET es == ParseExprs(s, op.pos, <<>>)
        IN  IF es.nodes = <<>> THEN Fail ELSE
        LET rp == ParseChar(s, es.pos, ")")
        IN  IF ~rp.ok THEN Fail
            ELSE Ok(Branch(<<"expr", ">">>,
                           <<lp.node, op.node>> \o es.nodes \o <<rp.node>>),
                    rp.pos)

\* lsp : /^/ <operator> <expr>+ /$/
ParseLsp(s) ==
    LET start == SkipWs(s, 1)
        op    == ParseOperator(s, start)
    IN  IF ~op.ok THEN Fail ELSE
        LET es == ParseExprs(s, op.pos, <<>>)
        IN  IF es.nodes = <<>> \/ es.pos # Len(s) + 1 THEN Fail
            ELSE Ok(Branch(<<">">>,
                           <<Leaf(<<"regex">>, <<>>), op.node>> \o es.nodes
                               \o <<Leaf(<<"regex">>, <<>>)>>),
                    es.pos)

\* mpc_parse("<stdin>", input, Lsp, &r)
mpc_parse(s) == ParseLsp(s)

-----------------------------------------------------------------------------
(* The lines readline can return *)

Operators == {"+", "-", "*", "/"}

\* The numerals at and around the limits of long, and the small ones.
CornerValues == {LONG_MIN, -1, 0, LONG_MAX, LONG_MAX + 1}

Corners == {Decimal(n) : n \in CornerValues}

\* The numerals of up to ten times the limits of long.
NumeralRange == (10 * LONG_MIN)..(10 * LONG_MAX)

AllNumerals == {Decimal(n) : n \in NumeralRange}

\* One expr with n nodes: a numeral, or a parenthesised operator applied to
\* the texts of one or more expr with n - 1 nodes in all.
ExprOf(n, F) ==
    IF n = 1 THEN Corners
    ELSE {<<"(", o, " ">> \o f \o <<")">> : o \in Operators, f \in F[n - 1]}

\* One or more expr, separated by a space, with n nodes in all.
ForestOf(n, E, En, F) ==
    En \cup UNION {{e \o <<" ">> \o f : e \in E[k], f \in F[n - k]} : k \in 1..(n - 1)}

\* ForestTexts(n, E, F)[k]: the texts of the forests with k nodes, for k up
\* to MaxNodes; E and F hold the expr and forest texts below n nodes.
RECURSIVE ForestTexts(_, _, _)
ForestTexts(n, E, F) ==
    IF n > MaxNodes THEN F
    ELSE LET En == ExprOf(n, F)
         IN  ForestTexts(n + 1, Append(E, En), Append(F, ForestOf(n, E, En, F)))

Forests == ForestTexts(1, <<>>, <<>>)

\* Lines the grammar accepts: an operator and a forest of at most MaxNodes
\* nodes, or an operator and any one numeral.
WellFormed ==
    {<<o, " ">> \o f : o \in Operators, f \in UNION {Forests[n] : n \in 1..MaxNodes}}
        \cup {<<o, " ">> \o f : o \in Operators, f \in AllNumerals}

\* The shorter well-formed lines, from which the cut lines are made.
Short ==
    {<<o, " ">> \o f : o \in Operators, f \in UNION {Forests[n] : n \in 1..(MaxNodes - 1)}}

MaxShort == CHOOSE m \in {Len(l) : l \in Short} : \A l \in Short : Len(l) <= m

Min(a, b) == IF a < b THEN a ELSE b

\* What is left of a short line when its tail or its head is cut off.
Cuts ==
    {SubSeq(l, 1, Min(k, Len(l))) : l \in Short, k \in 0..MaxShort}
        \cup {SubSeq(l, Min(k, Len(l)), Len(l)) : l \in Short, k \in 1..MaxShort}

Lines == WellFormed \cup Cuts

-----------------------------------------------------------------------------
(* eval_op *)

Abs(n) == IF n < 0 THEN -n ELSE n

\* The quotient of C's /, which truncates toward zero.
CDiv(a, b) ==
    IF (a < 0) = (b < 0) THEN Abs(a) \div Abs(b) ELSE -(Abs(a) \div Abs(b))

\* The long with the bits of n.
Wrap(n) == ((n - LONG_MIN) % (2 ^ LongBits)) + LONG_MIN

Value(v) == [trap |-> FALSE, v |-> v]

Trap == [trap |-> TRUE]

\* The result of a signed operation whose mathematical result is n: n itself
\* when a long can hold it; otherwise the behaviour is undefined, and a build
\* either traps or wraps around.
Signed(n) == IF InRange(n) THEN {Value(lval_num(n))} ELSE {Value(lval_num(Wrap(n))), Trap}

\* The operators with the operands of - taken in the wrong order.
ArithSwapped(op, a, b) ==
    IF op = <<"+">> THEN Signed(a + b)
    ELSE IF op = <<"-">> THEN Signed(b - a)
    ELSE IF op = <<"*">> THEN Signed(a * b)
    ELSE IF op = <<"/">>
         THEN IF b = 0 THEN {Value(lval_err(LERR_DIV_ZERO))} ELSE Signed(CDiv(a, b))
    ELSE {Value(lval_err(LERR_BAD_OP))}

\* The operators without the test of the divisor: the division by zero traps.
ArithUnchecked(op, a, b) ==
    IF op = <<"+">> THEN Signed(a + b)
    ELSE IF op = <<"-">> THEN Signed(a - b)
    ELSE IF op = <<"*">> THEN Signed(a * b)
    ELSE IF op = <<"/">>
         THEN IF b = 0 THEN {Trap} ELSE Signed(CDiv(a, b))
    ELSE {Value(lval_err(LERR_BAD_OP))}

\* The four operators on the nums a and b.
Arith(op, a, b) ==
    IF op = <<"+">> THEN Signed(a + b)
    ELSE IF op = <<"-">> THEN Signed(a - b)
    ELSE IF op = <<"*">> THEN Signed(a * b)
    ELSE IF op = <<"/">>
         THEN IF b = 0 THEN {Value(lval_err(LERR_DIV_ZERO))} ELSE Signed(CDiv(a, b))
    ELSE {Value(lval_err(LERR_BAD_OP))}

\* eval_op(x, op, y): what the call can return, or Trap.  Both tests are of
\* x.type; y.type is never looked at.
eval_op(x, op, y) ==
    IF x.type = LVAL_ERR THEN {Value(x)}
    ELSE IF x.type = LVAL_ERR THEN {Value(x)}
    ELSE UNION {Arith(op, a, b) : a \in NumOf(x), b \in NumOf(y)}

-----------------------------------------------------------------------------
(* eval *)

children_num(t) == Len(t.children)

Child(t, k) == t.children[k + 1]

\* strstr(tag, name) for a rule name or a part such as "regex".
strstr(tag, name) == \E k \in 1..Len(tag) : tag[k] = name

RECURSIVE NodeAt(_, _)
NodeAt(t, path) ==
    IF path = <<>> THEN t ELSE NodeAt(Child(t, Head(path)), Tail(path))

\* The number case of eval without errno = 0.
EvalNumberNoReset(contents, errnoBefore) ==
    LET r == strtol(contents, errnoBefore)
    IN  [v     |-> IF r.errno # ERANGE THEN lval_num(r.val) ELSE lval_err(LERR_BAD_NUM),
         errno |-> r.errno]

\* The number case of eval: errno = 0, strtol, and the test of errno.
EvalNumberOf(contents, errnoBefore) ==
    LET r == strtol(contents, 0)
    IN  [v     |-> IF r.errno # ERANGE THEN lval_num(r.val) ELSE lval_err(LERR_BAD_NUM),
         errno |-> r.errno]

\* The loop of eval leaving at the first error.
LoopCondUntilError(t, i, x) == strstr(Child(t, i).tag, "expr") /\ x.type # LVAL_ERR

\* The loop of eval going on to the end-of-input anchor.
LoopCondToAnchor(t, i, x) == ~strstr(Child(t, i).tag, "regex")

\* The test of the while loop of eval, on child i of t with accumulator x.
LoopCond(t, i, x) == strstr(Child(t, i).tag, "expr")

-----------------------------------------------------------------------------
(* lval_println *)

Text(s) == [text |-> s]

lval_print(v) ==
    IF v.type = LVAL_NUM THEN <<[li |-> Decimal(v.num)]>>
    ELSE IF v.type = LVAL_ERR
    THEN (IF v.err = LERR_DIV_ZERO THEN <<Text("Error: Division by zero")>> ELSE <<>>)
      \o (IF v.err = LERR_BAD_OP THEN <<Text("Error: Invalid operator")>> ELSE <<>>)
      \o (IF v.err = LERR_BAD_NUM THEN <<Text("Error: Invalid number")>> ELSE <<>>)
    ELSE <<>>

lval_println(v) == lval_print(v) \o <<Text("\n")>>

-----------------------------------------------------------------------------
(* main and the calls of eval *)

VARIABLES
    pc,       \* where main is: readline, parse, eval, print, delete, free, aborted
    input,    \* the line readline returned
    parsed,   \* what mpc_parse returned for the line: "none" before the call
    tree,     \* r.output, in a sequence: empty when there is none
    ast,      \* "none", "live" or "deleted": the storage r.output points to
    stack,    \* the calls of eval in progress, the innermost last
    result,   \* main's result, in a sequence: empty until eval has returned
    out,      \* what the cycle has written to stdout
    errno,    \* the C errno
    calls,    \* how many times eval was called in this cycle
    deletes,  \* how many times mpc_ast_delete was called in this cycle
    ret       \* the last return of eval in this cycle, in a sequence

vars == <<pc, input, parsed, tree, ast, stack, result, out, errno, calls, deletes, ret>>

Init ==
    /\ pc = "readline"
    /\ input = <<>>
    /\ parsed = "none"
    /\ tree = <<>>
    /\ ast = "none"
    /\ stack = <<>>
    /\ result = <<>>
    /\ out = <<>>
    /\ errno = 0
    /\ calls = 0
    /\ deletes = 0
    /\ ret = <<>>

Top == stack[Len(stack)]

Node(f) == NodeAt(tree[1], f.path)

\* A call of eval on the node at path.
Call(path) == [path |-> path, pc |-> "enter"]

\* char* input = readline("lsp> "); add_history(input);
Readline ==
    /\ pc = "readline"
    /\ \E l \in Lines : input' = l
    /\ out' = <<Text("lsp> ")>>
    /\ pc' = "parse"
    /\ UNCHANGED <<parsed, tree, ast, stack, result, errno, calls, deletes, ret>>

\* mpc_parse succeeded: main calls eval(r.output).
ParseOk ==
    /\ pc = "parse"
    /\ mpc_parse(input).ok
    /\ parsed' = "success"
    /\ tree' = <<mpc_parse(input).node>>
    /\ ast' = "live"
    /\ stack' = <<Call(<<>>)>>
    /\ calls' = calls + 1
    /\ pc' = "eval"
    /\ UNCHANGED <<input, result, out, errno, deletes, ret>>

\* main without the else: the error is printed and eval is called all the same.
ParseFailThenEval ==
    /\ pc = "parse"
    /\ ~mpc_parse(input).ok
    /\ parsed' = "failure"
    /\ out' = out \o <<Text("<stdin>: error: expected ...\n")>>
    /\ tree' = <<Leaf(<<"regex">>, <<>>)>>
    /\ ast' = "live"
    /\ stack' = <<Call(<<>>)>>
    /\ calls' = calls + 1
    /\ pc' = "eval"
    /\ UNCHANGED <<input, result, errno, deletes, ret>>

\* mpc_parse failed: mpc_err_print(r.error); mpc_err_delete(r.error);
ParseFail ==
    /\ pc = "parse"
    /\ ~mpc_parse(input).ok
    /\ parsed' = "failure"
    /\ out' = out \o <<Text("<stdin>: error: expected ...\n")>>
    /\ pc' = "free"
    /\ UNCHANGED <<input, tree, ast, stack, result, errno, calls, deletes, ret>>

\* The innermost call returns v: to the call that made it, or to main.
Return(v, record) ==
    LET rest == SubSeq(stack, 1, Len(stack) - 1)
    IN  /\ ret' = <<record>>
        /\ IF rest = <<>>
           THEN /\ stack' = <<>>
                /\ result' = <<v>>
                /\ pc' = "print"
           ELSE LET f == rest[Len(rest)]
                    g == IF f.pc = "first"
                         THEN [path |-> f.path, pc |-> "loop", op |-> f.op, x |-> v,
                               i |-> 3, kids |-> f.kids, vals |-> <<v>>]
                         ELSE [path |-> f.path, pc |-> "combine", op |-> f.op, x |-> f.x,
                               y |-> v, i |-> f.i, kids |-> f.kids,
                               vals |-> Append(f.vals, v)]
                IN  /\ stack' = [rest EXCEPT ![Len(rest)] = g]
                    /\ UNCHANGED <<result, pc>>

\* if (strstr(t->tag, "number")) { errno = 0; long x = strtol(...); return ... }
EvalNumber ==
    /\ pc = "eval"
    /\ Top.pc = "enter"
    /\ strstr(Node(Top).tag, "number")
    /\ LET e == EvalNumberOf(Node(Top).contents, errno)
       IN  /\ errno' = e.errno
           /\ Return(e.v, [path |-> Top.path, v |-> e.v, text |-> Node(Top).contents,
                           kids |-> <<>>, vals |-> <<>>])
    /\ UNCHANGED <<input, parsed, tree, ast, out, calls, deletes>>

\* char* op = t->children[1]->contents; lval x = eval(t->children[2]);
EvalBranch ==
    /\ pc = "eval"
    /\ Top.pc = "enter"
    /\ ~strstr(Node(Top).tag, "number")
    /\ IF children_num(Node(Top)) <= 2
       THEN /\ pc' = "aborted"
            /\ UNCHANGED <<stack, calls>>
       ELSE /\ stack' = [stack EXCEPT ![Len(stack)] =
                            [path |-> Top.path, pc |-> "first",
                             op |-> Child(Node(Top), 1).contents, kids |-> <<2>>]]
                        \o <<Call(Append(Top.path, 2))>>
            /\ calls' = calls + 1
            /\ UNCHANGED pc
    /\ UNCHANGED <<input, parsed, tree, ast, result, out, errno, deletes, ret>>

\* The test of the while loop holds: eval(t->children[i]) is called.
EvalLoop ==
    /\ pc = "eval"
    /\ Top.pc = "loop"
    /\ IF Top.i >= children_num(Node(Top))
       THEN /\ pc' = "aborted"
            /\ UNCHANGED <<stack, calls>>
       ELSE /\ LoopCond(Node(Top), Top.i, Top.x)
            /\ stack' = [stack EXCEPT ![Len(stack)] =
                            [Top EXCEPT !.pc = "arg", !.kids = Append(@, Top.i)]]
                        \o <<Call(Append(Top.path, Top.i))>>
            /\ calls' = calls + 1
            /\ UNCHANGED pc
    /\ UNCHANGED <<input, parsed, tree, ast, result, out, errno, deletes, ret>>

\* x = eval_op(x, op, <the value eval returned>); i++;
EvalOp ==
    /\ pc = "eval"
    /\ Top.pc = "combine"
    /\ \E o \in eval_op(Top.x, Top.op, Top.y) :
          IF o.trap
          THEN /\ pc' = "aborted"
               /\ UNCHANGED stack
          ELSE /\ stack' = [stack EXCEPT ![Len(stack)] =
                               [path |-> Top.path, pc |-> "loop", op |-> Top.op,
                                x |-> o.v, i |-> Top.i + 1, kids |-> Top.kids,
                                vals |-> Top.vals]]
               /\ UNCHANGED pc
    /\ UNCHANGED <<input, parsed, tree, ast, result, out, errno, calls, deletes, ret>>

\* The test of the while loop fails: return x;
EvalReturn ==
    /\ pc = "eval"
    /\ Top.pc = "loop"
    /\ Top.i < children_num(Node(Top))
    /\ ~LoopCond(Node(Top), Top.i, Top.x)
    /\ Return(Top.x, [path |-> Top.path, v |-> Top.x, op |-> Top.op,
                      kids |-> Top.kids, vals |-> Top.vals])
    /\ UNCHANGED <<input, parsed, tree, ast, out, errno, calls, deletes>>

\* lval_println(result);
Println ==
    /\ pc = "print"
    /\ out' = out \o lval_println(result[1])
    /\ pc' = "delete"
    /\ UNCHANGED <<input, parsed, tree, ast, stack, result, errno, calls, deletes, ret>>

\* main deleting the tree only after a Number.
AstDeleteAfterNumber ==
    /\ pc = "delete"
    /\ ast' = IF result[1].type = LVAL_NUM THEN "deleted" ELSE ast
    /\ deletes' = IF result[1].type = LVAL_NUM THEN deletes + 1 ELSE deletes
    /\ pc' = "free"
    /\ UNCHANGED <<input, parsed, tree, stack, result, out, errno, calls, ret>>

\* mpc_ast_delete(r.output);
AstDelete ==
    /\ pc = "delete"
    /\ ast' = "deleted"
    /\ deletes' = deletes + 1
    /\ pc' = "free"
    /\ UNCHANGED <<input, parsed, tree, stack, result, out, errno, calls, ret>>

\* free(input); and the locals of the loop body go out of scope.
Free ==
    /\ pc = "free"
    /\ pc' = "readline"
    /\ input' = <<>>
    /\ parsed' = "none"
    /\ tree' = <<>>
    /\ ast' = IF ast = "deleted" THEN "none" ELSE ast
    /\ result' = <<>>
    /\ out' = <<>>
    /\ calls' = 0
    /\ deletes' = 0
    /\ ret' = <<>>
    /\ UNCHANGED <<stack, errno>>

Next ==
    \/ Readline
    \/ ParseOk
    \/ ParseFail
    \/ EvalNumber
    \/ EvalBranch
    \/ EvalLoop
    \/ EvalOp
    \/ EvalReturn
    \/ Println
    \/ AstDelete
    \/ Free

Spec == Init /\ [][Next]_vars

-----------------------------------------------------------------------------
(* Properties *)

Prompt == Text("lsp> ")

ParseError == Text("<stdin>: error: expected ...\n")

IsErr(v) == v.type = LVAL_ERR

IsNum(v) == v.type = LVAL_NUM

\* The last return of eval, when it was the return of an operator form.
FormReturned(r) == "op" \in DOMAIN r

\* The last return of eval, when it was the return of a numeral.
NumeralReturned(r) == "text" \in DOMAIN r

HasErr(vals) == \E j \in 1..Len(vals) : IsErr(vals[j])

FirstErr(vals) ==
    CHOOSE j \in 1..Len(vals) : IsErr(vals[j]) /\ \A k \in 1..(j - 1) : ~IsErr(vals[k])

\* C1: when an operand of a form evaluates to Error(k), the form returns
\* Error(k) with k the kind of the first such operand: never a Number, never
\* another kind.
C1_ErrorIsFinal ==
    \A n \in 1..Len(ret) :
        (FormReturned(ret[n]) /\ HasErr(ret[n].vals))
            => /\ IsErr(ret[n].v)
               /\ ret[n].v.err = ret[n].vals[FirstErr(ret[n].vals)].err

\* C2: when the parse of the line fails eval is never called, no result
\* exists, and the cycle writes nothing but the prompt and the parse error.
C2_NoEvalAfterParseFailure ==
    /\ parsed = "failure"
          => /\ ~mpc_parse(input).ok
             /\ calls = 0
             /\ stack = <<>>
             /\ result = <<>>
             /\ pc = "free"
             /\ out = <<Prompt, ParseError>>
    /\ calls > 0 => parsed = "success"

C2_Witness == pc = "free" /\ ~mpc_parse(input).ok /\ out = <<Prompt, ParseError>>

\* The quotient of a by b rounded toward zero: q with a = q * b + r, where
\* r is smaller than b in magnitude and has the sign of a.
TruncQuot(a, b) ==
    CHOOSE q \in (-Abs(a))..Abs(a) :
        LET r == a - q * b
        IN  Abs(r) < Abs(b) /\ (r = 0 \/ (r < 0) = (a < 0))

MathOp(op, a, b) ==
    IF op = <<"+">> THEN a + b
    ELSE IF op = <<"-">> THEN a - b
    ELSE IF op = <<"*">> THEN a * b
    ELSE TruncQuot(a, b)

Front(ns) == SubSeq(ns, 1, Len(ns) - 1)

Last(ns) == ns[Len(ns)]

\* ((v1 op v2) op v3) ... op vk
RECURSIVE FoldLeft(_, _)
FoldLeft(op, ns) ==
    IF Len(ns) = 1 THEN ns[1] ELSE MathOp(op, FoldLeft(op, Front(ns)), Last(ns))

\* No divisor is zero and no intermediate result overflows.
RECURSIVE FoldDefined(_, _)
FoldDefined(op, ns) ==
    IF Len(ns) = 1 THEN TRUE
    ELSE /\ FoldDefined(op, Front(ns))
         /\ op = <<"/">> => Last(ns) # 0
         /\ InRange(MathOp(op, FoldLeft(op, Front(ns)), Last(ns)))

Nums(vals) == [j \in 1..Len(vals) |-> vals[j].num]

\* C3: a form whose operands are all Numbers, with no zero divisor and no
\* overflow on the way, returns the Number of the left-to-right fold of the
\* operands, / truncating toward zero.
C3_LeftFold ==
    \A n \in 1..Len(ret) :
        (/\ FormReturned(ret[n])
         /\ \A j \in 1..Len(ret[n].vals) : IsNum(ret[n].vals[j])
         /\ FoldDefined(ret[n].op, Nums(ret[n].vals)))
            => ret[n].v = lval_num(FoldLeft(ret[n].op, Nums(ret[n].vals)))

\* (- 0 -1 -1) returned 2, where 0 - (-1 - -1) is 0.
C3_Witness ==
    /\ ret # <<>>
    /\ FormReturned(ret[1])
    /\ ret[1].op = <<"-">>
    /\ ret[1].vals = <<lval_num(0), lval_num(-1), lval_num(-1)>>
    /\ ret[1].v = lval_num(2)

\* C4: a call of eval_op under / with a Number accumulator and the operand
\* Number(0) gives Error(DivisionByZero): no quotient, no trap.
C4_DivisionByZero ==
    [][(/\ pc = "eval"
        /\ Top.pc = "combine"
        /\ Top.op = <<"/">>
        /\ IsNum(Top.x)
        /\ Top.y = lval_num(0))
          => (/\ pc' = "eval"
              /\ stack'[Len(stack')].pc = "loop"
              /\ stack'[Len(stack')].x = lval_err(LERR_DIV_ZERO))]_vars

\* A negative number was divided by 0.
C4_Witness ==
    /\ pc = "eval"
    /\ Top.pc = "loop"
    /\ Top.op = <<"/">>
    /\ Len(Top.vals) = 2
    /\ IsNum(Top.vals[1])
    /\ Top.vals[1].num < 0
    /\ Top.vals[2] = lval_num(0)
    /\ Top.x = lval_err(LERR_DIV_ZERO)

\* Every numeral of the tree t is the numeral of a long.
RECURSIVE NumeralsInRange(_)
NumeralsInRange(t) ==
    IF strstr(t.tag, "number") THEN \E v \in LongRange : t.contents = Decimal(v)
    ELSE \A k \in 1..Len(t.children) : NumeralsInRange(t.children[k])

\* C5: the evaluation of a tree whose numerals are all in the range of long
\* never aborts the process.
C5_NeverAborts == (tree # <<>> /\ NumeralsInRange(tree[1])) => pc # "aborted"

\* The numeral of each n.
NumeralOf == [n \in NumeralRange |-> Decimal(n)]

\* The numerals of the integers a long can hold.
InRangeNumerals == {NumeralOf[n] : n \in LongRange}

\* v is Number(n) for the n that the numeral text denotes.
IsNumberOf(v, text) == IsNum(v) /\ v.num \in NumeralRange /\ NumeralOf[v.num] = text

\* C6, as claimed: the line that is the numeral of an in-range n and nothing
\* else ends its cycle with the result Number(n).
C6_NumeralAlone ==
    (pc = "free" /\ input \in InRangeNumerals)
        => result # <<>> /\ IsNumberOf(result[1], input)

\* C6, amended: the line that is one operator followed by the numeral of an
\* in-range n as its only operand is evaluated to Number(n), which is printed
\* as that numeral.
C6_OperatorAndNumeral ==
    (/\ Len(input) > 2
     /\ input[1] \in Operators
     /\ input[2] = " "
     /\ SubSeq(input, 3, Len(input)) \in InRangeNumerals)
        => /\ pc # "aborted"
           /\ pc \in {"print", "delete", "free"}
                 => result # <<>> /\ IsNumberOf(result[1], SubSeq(input, 3, Len(input)))
           /\ pc \in {"delete", "free"}
                 => out = <<Prompt, [li |-> SubSeq(input, 3, Len(input))], Text("\n")>>

C6_Witness ==
    /\ pc = "free"
    /\ input = <<"-", " ">> \o Decimal(LONG_MIN)
    /\ result = <<lval_num(LONG_MIN)>>

\* C7: eval of a number node whose text is the numeral of v returns Number(v)
\* when v is in the range of long and Error(InvalidNumber) when it is not,
\* whatever was evaluated before.
C7_NumberNode ==
    \A n \in 1..Len(ret) :
        NumeralReturned(ret[n]) =>
            /\ ret[n].text \in AllNumerals
            /\ IF ret[n].text \in InRangeNumerals
               THEN IsNumberOf(ret[n].v, ret[n].text)
               ELSE ret[n].v = lval_err(LERR_BAD_NUM)

\* LONG_MAX was evaluated to a Number right after an out-of-range numeral.
C7_Witness ==
    /\ pc = "eval"
    /\ Top.pc = "combine"
    /\ Top.x = lval_err(LERR_BAD_NUM)
    /\ Top.y = lval_num(LONG_MAX)
    /\ NumeralReturned(ret[1])
    /\ ret[1].text = Decimal(LONG_MAX)

\* C8: the tree of a line is live only from the parse to its one deletion,
\* which comes after the result is printed; eval runs only on a live tree;
\* at the end of the cycle the tree has been deleted exactly once, after a
\* Number and after an Error alike; no tree is live when a line is read or
\* parsed.
C8_TreeReleasedOnce ==
    /\ deletes <= 1
    /\ stack # <<>> => ast = "live"
    /\ pc \in {"readline", "parse"} => ast = "none" /\ tree = <<>>
    /\ pc \in {"eval", "print", "delete"} => ast = "live" /\ deletes = 0
    /\ pc = "delete" => out = <<Prompt>> \o lval_println(result[1])
    /\ (pc = "free" /\ tree # <<>>)
          => /\ ast = "deleted"
             /\ deletes = 1
             /\ out = <<Prompt>> \o lval_println(result[1])
    /\ (pc = "free" /\ tree = <<>>) => ast = "none" /\ deletes = 0

\* A tree was deleted after eval returned an Error.
C8_Witness ==
    /\ pc = "free"
    /\ deletes = 1
    /\ ast = "deleted"
    /\ IsErr(result[1])

\* The operands of the form at node t: children 2 to children_num - 2.
OperandIndexes(t) == [j \in 1..(children_num(t) - 3) |-> j + 1]

\* C9: a form returns only after each of its operands has been evaluated
\* once, in order from the left, also after an Error; and an accumulator that
\* is an Error is what the form returns.
C9_EveryOperandEvaluated ==
    \A n \in 1..Len(ret) :
        FormReturned(ret[n]) =>
            /\ ret[n].kids = OperandIndexes(NodeAt(tree[1], ret[n].path))
            /\ Len(ret[n].vals) = Len(ret[n].kids)
            /\ IsErr(ret[n].vals[1]) => ret[n].v = ret[n].vals[1]

\* Three operands were evaluated although the first gave an Error.
C9_Witness ==
    /\ ret # <<>>
    /\ FormReturned(ret[1])
    /\ ret[1].kids = <<2, 3, 4>>
    /\ IsErr(ret[1].vals[1])
    /\ IsNum(ret[1].vals[2])
    /\ ret[1].v = ret[1].vals[1]

\* C10: every node eval is called on is the root or an expr; at a node that
\* is not a number, child 1 is the operator, child 2 is an expr, the last
\* child is the closing token, which is not an expr, and the index the loop
\* reads is below the number of children.
C10_ChildIndexInBounds ==
    \A n \in 1..Len(stack) :
        LET f == stack[n]
            t == NodeAt(tree[1], f.path)
        IN  /\ f.path # <<>> => strstr(t.tag, "expr")
            /\ ~strstr(t.tag, "number")
                  => /\ children_num(t) >= 4
                     /\ strstr(Child(t, 1).tag, "operator")
                     /\ strstr(Child(t, 2).tag, "expr")
                     /\ ~strstr(Child(t, children_num(t) - 1).tag, "expr")
                     /\ f.pc \in {"loop", "arg", "combine"}
                           => 3 <= f.i /\ f.i < children_num(t)

\* The loop of a nested form, the last operand of the line, is at its ')':
\* the last child of the form, and the last but one of the root.
C10_Witness ==
    /\ pc = "eval"
    /\ Len(stack) = 2
    /\ stack[1].pc = "arg"
    /\ stack[1].i = children_num(tree[1]) - 2
    /\ Child(tree[1], stack[1].i + 1) = Leaf(<<"regex">>, <<>>)
    /\ Top.pc = "loop"
    /\ Top.i = children_num(Node(Top)) - 1
    /\ Child(Node(Top), Top.i) = Leaf(<<"char">>, <<")">>)

====
